---- MODULE Spec2Model ----
(***************************************************************************)
(* Two-tier grain distribution simulation (CG -> LG -> FPS).               *)
(*                                                                         *)
(* run_simulation exists in two copies, src/simulation.py (the inline copy *)
(* of the dashboard) and src/simulation_py.py (the stand-alone module).    *)
(* The variable `variant` says which copy is running; wherever the two     *)
(* copies differ the action branches on it.                                *)
(*                                                                         *)
(* Quantities are integers (one unit = one grid step of tonnage).  Every   *)
(* quantity the code computes from grid inputs stays on the grid, so the   *)
(* code's tolerance tests `v > 1e-6`, `v < 1e-6` and `a + 1e-6 < b` are    *)
(* `v > 0`, `v <= 0` and `a < b` here.                                     *)
(***************************************************************************)
EXTENDS Integers, Sequences, FiniteSets, TLC

VARIABLES
    variant,      \* "simulation" | "simulation_py": which copy of run_simulation
    req,          \* req_pivot: [LG -> [1..CG_TOTAL_DAYS -> Nat]]
    capacity,     \* capacity: [LG -> Nat]
    mode,         \* "search" | "cg" | "lg" | "done" | "error"
    pc,           \* position inside the running loop
    x,            \* loop variable of the feasibility search
    pre_days,     \* chosen offset
    stock,        \* stock: [LG -> Nat] (dry run and production run)
    day,          \* current day of the running day loop
    trips,        \* trips / trips_left
    vids,         \* vids / vehicle_ids: ids not yet handed out today
    order,        \* regional points the serve loop has still to visit
    dl,           \* dl / deliver of the point being served (production run)
    future,       \* future / future_unmet
    cand,         \* cand / candidates
    idx,          \* idx
    cg_records,   \* cg_records / records_cg
    failed,       \* history: the shortfall that made can_meet_all(x) return False
    issued,       \* history: loads issued so far on the current day
    dry_log,      \* history: end-of-day stock and loads of the latest dry run
    err,          \* "" or the fatal condition raised
    settings,     \* Settings sheet: the parameters run_simulation reads
    lgs,          \* LGs sheet: Initial_Allocation_tons per LG_ID
    fps,          \* FPS sheet: sequence of rows
    fps_text,     \* the FPS sheet has a text column (names, Linked_LG_ID)
    vehicles,     \* Vehicles sheet: [has_routes, rows]
    lg_stock2,    \* lg_stock2 / lg_stock
    fps_stock2,   \* fps_stock2 / fps_stock
    needs,        \* needs not yet processed today (sorted)
    Trips_Used,   \* veh["Trips_Used"], per row of the Vehicles sheet
    lgp_records,  \* lgp_records / dispatch_records
    stock_records \* stock_records

inputs == <<variant, req, capacity, settings, lgs, fps, fps_text, vehicles>>
phase2 == <<lg_stock2, fps_stock2, needs, Trips_Used, lgp_records, stock_records>>
search == <<x, pre_days, failed>>
loopvars == <<order, dl, future, cand, idx>>
vars == <<variant, req, capacity, mode, pc, x, pre_days, stock, day, trips,
          vids, order, dl, future, cand, idx, cg_records, failed, issued,
          dry_log, err,
          settings, lgs, fps, fps_text, vehicles, lg_stock2, fps_stock2, needs,
          Trips_Used, lgp_records, stock_records>>

----------------------------------------------------------------------------
(* Bounds and scaled-down program constants *)

NUM_CG_VEHICLES == 2
CG_VEHICLE_CAP == 2
CG_TOTAL_DAYS == 2
CG_MAX_PRE_DAYS == 2
MaxReq == 3
MaxCap == 3
MaxTripsPer == 2
MaxDemand == 2
MaxAlloc == 3
DefaultLead == 2
DefaultVehCap == 2
DistDays == 3
TripsLeft == 5

LG_IDS == {1, 2}
DAYS == 1..CG_TOTAL_DAYS

Max(a, b) == IF a >= b THEN a ELSE b
Min(a, b) == IF a <= b THEN a ELSE b
Min3(a, b, c) == Min(a, Min(b, c))

\* math.ceil(a / b) for a >= 0, b > 0
ceil_div(a, b) == (a + b - 1) \div b

RECURSIVE SumTo(_, _, _)
\* sum(f[d] for d in range(lo, hi + 1))
SumTo(f, lo, hi) == IF lo > hi THEN 0 ELSE f[lo] + SumTo(f, lo + 1, hi)

RECURSIVE SeqOfSet(_)
\* the elements of a set of integers as an ascending sequence
SeqOfSet(S) ==
    IF S = {} THEN <<>>
    ELSE LET m == CHOOSE a \in S : \A b \in S : a <= b
         IN <<m>> \o SeqOfSet(S \ {m})

RemoveFirst(s, e) ==
    LET i == CHOOSE j \in 1..Len(s) : s[j] = e /\ \A k \in 1..(j - 1) : s[k] # e
    IN SubSeq(s, 1, i - 1) \o SubSeq(s, i + 1, Len(s))

----------------------------------------------------------------------------
(* Phase 1 helpers *)

free_room(st, lg) == Max(0, capacity[lg] - st[lg])

\* for lg in stock: dict order = req_pivot.index order (ascending LG_ID)
IndexOrder == SeqOfSet(DOMAIN req)

RECURSIVE SortedBy(_, _, _)
\* sorted(S, key=lambda l: -(req[l][d] - st[l])): descending unmet need, stable
SortedBy(S, st, d) ==
    IF S = {} THEN <<>>
    ELSE LET m == CHOOSE a \in S : \A b \in S :
                     \/ req[a][d] - st[a] > req[b][d] - st[b]
                     \/ (req[a][d] - st[a] = req[b][d] - st[b] /\ a <= b)
         IN <<m>> \o SortedBy(S \ {m}, st, d)

\* mutation: the serve loop visits the regional points in index order
ServeOrder_index(st, d) == SeqOfSet(LG_IDS)

ServeOrder(st, d) == SortedBy(LG_IDS, st, d)

\* mutation: the stock on hand is not set against the future requirement
FutureUnmet_gross(st, d) ==
    [lg \in DOMAIN st |-> SumTo(req[lg], Max(1, d + 1), CG_TOTAL_DAYS)]

\* max(0, sum(req[lg][d] for d in range(max(1, day+1), TOTAL_DAYS+1)) - stock[lg])
FutureUnmet(st, d) ==
    [lg \in DOMAIN st |->
        Max(0, SumTo(req[lg], Max(1, d + 1), CG_TOTAL_DAYS) - st[lg])]

\* mutation: a candidate must have room for a whole vehicle load
Candidates_fullload(fu, st) ==
    SelectSeq(IndexOrder,
              LAMBDA lg : fu[lg] > 0 /\ free_room(st, lg) >= CG_VEHICLE_CAP)

\* cand = [lg for lg, fu in future.items() if fu>1e-6 and free_room(stock,lg)>1e-6]
Candidates(fu, st) ==
    SelectSeq(IndexOrder, LAMBDA lg : fu[lg] > 0 /\ free_room(st, lg) > 0)

CgRecord(d, vid, lg, qty) ==
    [Day |-> d, Vehicle_ID |-> vid, LG_ID |-> lg, Quantity_tons |-> qty]

ZeroStock == [lg \in LG_IDS |-> 0]

\* mutation: the search loop steps by two
NextOffset_skip(v) == v + 2

\* for x in range(CG_MAX_PRE_DAYS+1): the offset tried after x
NextOffset(v) == v + 1


----------------------------------------------------------------------------
(* Phase 2 helpers *)

\* a spreadsheet cell holding a number is <<n>>, an empty cell (NaN) is <<>>
NaN == <<>>
fillna(cell, default) == IF cell = NaN THEN default ELSE cell[1]

\* a token of the comma-separated Mapped_LG_IDs cell
Tok(n) == [isdigit |-> TRUE, int |-> n]
Junk == [isdigit |-> FALSE, int |-> 0]

RECURSIVE ParseRoute(_)
\* [int(x) for x in str(s).split(",") if x.strip().isdigit()]
ParseRoute(toks) ==
    IF toks = <<>> THEN <<>>
    ELSE (IF Head(toks).isdigit THEN <<Head(toks).int>> ELSE <<>>)
         \o ParseRoute(Tail(toks))

Range(s) == {s[i] : i \in 1..Len(s)}

FPS_IDS == {1, 2}
VEH_ROWS == {1, 2}

trips_per == settings.Max_Trips_Per_Vehicle_Per_Day

\* fps2["Daily_Demand_tons"] = fps2["Monthly_Demand_tons"]/30.0
Daily_Demand_tons(r) == r.Monthly_Demand_tons \div 30

\* fps2["Lead_Time_days"].fillna(default_lead)
Lead_Time_days(r) == fillna(r.Lead_Time_days, settings.Default_Lead_Time_days)

Reorder_Threshold_tons(r) == Daily_Demand_tons(r) * Lead_Time_days(r)

\* mutation: a route that resolves to nothing counts as every regional point
Mapped_LGs_List_open(v) ==
    IF vehicles.has_routes /\ ParseRoute(v.Mapped_LG_IDs) # <<>>
    THEN ParseRoute(v.Mapped_LG_IDs) ELSE SeqOfSet(LG_IDS)

\* veh["Mapped_LGs_List"]; simulation.py takes every LG when the column is absent
Mapped_LGs_List(v) ==
    IF vehicles.has_routes THEN ParseRoute(v.Mapped_LG_IDs) ELSE SeqOfSet(LG_IDS)

\* veh["Capacity"]: simulation.py fills with CG_VEHICLE_CAP, simulation_py.py
\* with the Settings value Vehicle_Capacity_tons
Capacity(v) ==
    fillna(v.Capacity_tons,
           IF variant = "simulation" THEN CG_VEHICLE_CAP
                                     ELSE settings.Vehicle_Capacity_tons)

\* range(1, CG_TOTAL_DAYS+1) in simulation.py, range(1, days+1) in simulation_py.py
Horizon == IF variant = "simulation" THEN CG_TOTAL_DAYS ELSE settings.Distribution_Days

\* fps_stock2[fid] = max(0, fps_stock2[fid] - r["Daily_Demand_tons"]) for every row
ConsumeFps(fst) ==
    [fid \in FPS_IDS |-> Max(0, fst[fid] - Daily_Demand_tons(fps[fid]))]

\* lg_stock2.get(lgid, 0.0)
Avail(lst, lgid) == IF lgid \in DOMAIN lst THEN lst[lgid] ELSE 0

\* mutation: the need ignores the outlet's free space
NeedQty_nospace(r, fst, lst) == Avail(lst, r.LG_ID)

\* qty = min(avail, space), space = Max_Capacity_tons - cur
NeedQty(r, fst, lst) ==
    Min(Avail(lst, r.LG_ID), r.Max_Capacity_tons - fst[r.FPS_ID])

\* the need of row r: `if cur <= thr` and `if qty > 0`
HasNeed(r, fst, lst) ==
    /\ fst[r.FPS_ID] <= Reorder_Threshold_tons(r)
    /\ NeedQty(r, fst, lst) > 0

\* (urg, fid, lgid, qty); urg = (thr-cur)/Daily_Demand_tons kept as a fraction;
\* the fraction 0/0 stands for the float nan
NeedOf(r, fst, lst) ==
    [urg |-> [n |-> Reorder_Threshold_tons(r) - fst[r.FPS_ID],
              d |-> Daily_Demand_tons(r)],
     fid |-> r.FPS_ID,
     lgid |-> r.LG_ID,
     qty |-> NeedQty(r, fst, lst)]

\* the division (thr-cur)/r["Daily_Demand_tons"] is evaluated for a row with
\* daily demand 0.  iterrows() of a sheet with a text column yields object
\* rows whose numbers are Python floats, and the division raises
\* ZeroDivisionError; the rows of an all-numeric sheet are float64 and the
\* division yields nan (thr = cur = 0) with a warning
DividesByZero(fst, lst) ==
    \E fid \in FPS_IDS : HasNeed(fps[fid], fst, lst) /\ Daily_Demand_tons(fps[fid]) = 0

\* mutation: every outlet in need is entered twice
RawNeeds_twice(fst, lst) ==
    LET rows == SelectSeq(SeqOfSet(FPS_IDS), LAMBDA fid : HasNeed(fps[fid], fst, lst))
    IN [i \in 1..(2 * Len(rows)) |->
          NeedOf(fps[rows[(i + 1) \div 2]], fst, lst)]

RawNeeds(fst, lst) ==
    LET rows == SelectSeq(SeqOfSet(FPS_IDS), LAMBDA fid : HasNeed(fps[fid], fst, lst))
    IN [i \in 1..Len(rows) |-> NeedOf(fps[rows[i]], fst, lst)]

\* mutation: the comparison of the sort key is reversed
UrgGT_flip(a, b) == a.urg.n * b.urg.d < b.urg.n * a.urg.d

\* a.urg > b.urg for fractions with denominators >= 0; a comparison with
\* nan (0/0) is False, as it is for floats
UrgGT(a, b) == a.urg.n * b.urg.d > b.urg.n * a.urg.d

RECURSIVE SortNeeds(_)
\* needs.sort(reverse=True, key=lambda x: x[0]): descending urgency, stable
SortNeeds(ns) ==
    IF ns = <<>> THEN <<>>
    ELSE LET i == CHOOSE j \in 1..Len(ns) :
                     /\ \A k \in 1..Len(ns) : ~UrgGT(ns[k], ns[j])
                     /\ \A k \in 1..(j - 1) : UrgGT(ns[j], ns[k])
         IN <<ns[i]>> \o SortNeeds(SubSeq(ns, 1, i - 1) \o SubSeq(ns, i + 1, Len(ns)))

\* mutation: the trip counter is not looked at
VehCand_nocap(lgid, used) ==
    SelectSeq(SeqOfSet(VEH_ROWS),
              LAMBDA i : lgid \in Range(Mapped_LGs_List(vehicles.rows[i])))

\* cand = veh[lgid in Mapped_LGs_List]; cand = cand[Trips_Used < trips_per]
VehCand(lgid, used) ==
    SelectSeq(SeqOfSet(VEH_ROWS),
              LAMBDA i : /\ lgid \in Range(Mapped_LGs_List(vehicles.rows[i]))
                         /\ used[i] < trips_per)

\* shared = cand[len(Mapped_LGs_List) > 1]
Shared(c) == SelectSeq(c, LAMBDA i : Len(Mapped_LGs_List(vehicles.rows[i])) > 1)

\* mutation: the first vehicle of the registry is taken, eligible or not
Truck_first(c) == SeqOfSet(VEH_ROWS)[1]

\* truck = shared.iloc[0] if not shared.empty else cand.iloc[0]
Truck(c) == IF Shared(c) # <<>> THEN Shared(c)[1] ELSE c[1]

\* mutation: the vehicle leaves with a full load
Send_full(row, nd, lst) == Capacity(row)

\* mutation: the vehicle capacity is left out of the minimum
Send_nocap(row, nd, lst) == Min(nd.qty, lst[nd.lgid])

\* mutation: the regional point's current stock is left out of the minimum
Send_stale(row, nd, lst) == Min(Capacity(row), nd.qty)

\* send = min(capv, need, lg_stock2[lgid])
Send(row, nd, lst) == Min3(Capacity(row), nd.qty, lst[nd.lgid])

LgpRecord(d, vid, lgid, fid, qty) ==
    [Day |-> d, Vehicle_ID |-> vid, LG_ID |-> lgid, FPS_ID |-> fid,
     Quantity_tons |-> qty]

StockRecord(d, type, id, st) ==
    [Day |-> d, Entity_Type |-> type, Entity_ID |-> id, Stock_Level_tons |-> st]

\* mutation: the day's snapshot holds the regional points only
DaySnapshot_lgonly(d, lst, fst) ==
    [i \in 1..Len(SeqOfSet(LG_IDS)) |->
        StockRecord(d, "LG", SeqOfSet(LG_IDS)[i], lst[SeqOfSet(LG_IDS)[i]])]

\* the rows appended by the two `for ... in ....items()` loops of a day
DaySnapshot(d, lst, fst) ==
    [i \in 1..Len(SeqOfSet(LG_IDS)) |->
        StockRecord(d, "LG", SeqOfSet(LG_IDS)[i], lst[SeqOfSet(LG_IDS)[i]])]
    \o
    [i \in 1..Len(SeqOfSet(FPS_IDS)) |->
        StockRecord(d, "FPS", SeqOfSet(FPS_IDS)[i], fst[SeqOfSet(FPS_IDS)[i]])]

ZeroFps == [fid \in FPS_IDS |-> 0]
ZeroTrips == [i \in VEH_ROWS |-> 0]

----------------------------------------------------------------------------
(* Input tables *)

SettingsSet ==
    [Max_Trips_Per_Vehicle_Per_Day : 1..MaxTripsPer,
     Default_Lead_Time_days : {DefaultLead},
     Vehicle_Capacity_tons : {DefaultVehCap},
     Distribution_Days : {DistDays}]

FpsRows(fid, demands, leads, caps, links) ==
    [FPS_ID : {fid},
     Monthly_Demand_tons : {30 * k : k \in demands},
     Lead_Time_days : leads,
     Max_Capacity_tons : caps,
     LG_ID : links]

FpsSet ==
    {<<a, b>> : a \in FpsRows(1, 0..MaxDemand, {NaN, <<1>>}, {3}, {1}),
                b \in FpsRows(2, 1..MaxDemand, {<<1>>}, {1, 3}, LG_IDS)}

\* outlets with lead times of 1 and 5 days
FpsSetLead ==
    {<<a, b>> : a \in FpsRows(1, {1}, {<<1>>, <<5>>}, {3}, {1}),
                b \in FpsRows(2, 1..MaxDemand, {<<1>>, <<5>>}, {3}, LG_IDS)}

\* simulation_py.py needs the text column Linked_LG_ID; simulation.py also
\* runs on an all-numeric sheet (which matters for a zero-demand row only)
FpsTextSet(v, f) ==
    IF v = "simulation" /\ \E fid \in FPS_IDS : f[fid].Monthly_Demand_tons = 0
    THEN BOOLEAN ELSE {TRUE}

LgsSet == {l \in [LG_IDS -> {0, 1, MaxAlloc}] : l[2] = MaxAlloc}

VehRowsSet ==
    {<<a, b>> :
        a \in [Vehicle_ID : {1},
               Capacity_tons : {NaN, <<1>>},
               Mapped_LG_IDs : {<<Tok(1)>>, <<Tok(2)>>, <<Tok(1), Tok(2)>>, <<Junk>>}],
        b \in [Vehicle_ID : {2},
               Capacity_tons : {<<3>>},
               Mapped_LG_IDs : {<<Tok(1), Tok(2)>>, <<Tok(2)>>}]}

\* the Mapped_LG_IDs column may be missing in simulation.py only
VehiclesSet(v) ==
    [has_routes : {TRUE}, rows : VehRowsSet]
    \cup (IF v = "simulation"
          THEN [has_routes : {FALSE},
                rows : {r \in VehRowsSet :
                           /\ r[1].Mapped_LG_IDs = <<Junk>>
                           /\ r[2].Mapped_LG_IDs = <<Tok(2)>>}]
          ELSE {})

\* requirement tables: LG 1 has any requirement on any day, LG 2 the same
\* requirement every day
ReqSet ==
    {[lg \in LG_IDS |-> IF lg = 1 THEN a ELSE [d \in DAYS |-> b]] :
        a \in [DAYS -> 0..MaxReq], b \in 0..MaxReq}

\* one fixed scenario of each side, used while the other side varies
FixedReq == [lg \in LG_IDS |-> [d \in DAYS |-> 0]]
FixedCapacity == [lg \in LG_IDS |-> MaxCap]
FixedSettings ==
    [Max_Trips_Per_Vehicle_Per_Day |-> MaxTripsPer,
     Default_Lead_Time_days |-> DefaultLead,
     Vehicle_Capacity_tons |-> DefaultVehCap, Distribution_Days |-> DistDays]
FixedLgs == [lg \in LG_IDS |-> MaxAlloc]
FixedFps ==
    <<[FPS_ID |-> 1, Monthly_Demand_tons |-> 30, Lead_Time_days |-> NaN,
       Max_Capacity_tons |-> 3, LG_ID |-> 1],
      [FPS_ID |-> 2, Monthly_Demand_tons |-> 60, Lead_Time_days |-> <<1>>,
       Max_Capacity_tons |-> 3, LG_ID |-> 1]>>
FixedVehicles ==
    [has_routes |-> TRUE,
     rows |-> <<[Vehicle_ID |-> 1, Capacity_tons |-> NaN, Mapped_LG_IDs |-> <<Tok(1)>>],
                [Vehicle_ID |-> 2, Capacity_tons |-> <<3>>,
                 Mapped_LG_IDs |-> <<Tok(1), Tok(2)>>]>>]

\* the inputs: either the phase-1 tables vary, or the phase-2 tables do
\* (InputsLG, InputsLead, InputsRoute)
InputsCG ==
    /\ req \in ReqSet
    /\ capacity \in [LG_IDS -> 1..MaxCap]
    /\ settings = FixedSettings
    /\ lgs = FixedLgs
    /\ fps = FixedFps
    /\ fps_text = TRUE
    /\ vehicles = FixedVehicles

InputsLG ==
    /\ req = FixedReq
    /\ capacity = FixedCapacity
    /\ settings \in SettingsSet
    /\ lgs \in LgsSet
    /\ fps \in FpsSet
    /\ fps_text \in FpsTextSet(variant, fps)
    /\ vehicles \in VehiclesSet(variant)

\* the phase-2 tables vary over outlets with long and short lead times
InputsLead ==
    /\ req = FixedReq
    /\ capacity = FixedCapacity
    /\ settings \in SettingsSet
    /\ lgs = FixedLgs
    /\ fps \in FpsSetLead
    /\ fps_text = TRUE
    /\ vehicles \in {v \in VehiclesSet(variant) :
                        v.has_routes /\ v.rows[1].Capacity_tons = NaN}

\* a registry whose first route cell names regional point 1 twice ("1,1")
RepeatedRouteVehicles ==
    [has_routes : {TRUE},
     rows : {<<a, b>> :
                a \in [Vehicle_ID : {1}, Capacity_tons : {NaN, <<1>>},
                       Mapped_LG_IDs : {<<Tok(1), Tok(1)>>}],
                b \in [Vehicle_ID : {2}, Capacity_tons : {<<3>>},
                       Mapped_LG_IDs : {<<Tok(1), Tok(2)>>, <<Tok(1)>>}]}]

\* the fixed phase-2 tables with such a registry
InputsRoute ==
    /\ req = FixedReq
    /\ capacity = FixedCapacity
    /\ settings \in SettingsSet
    /\ lgs = FixedLgs
    /\ fps = FixedFps
    /\ fps_text = TRUE
    /\ vehicles \in RepeatedRouteVehicles

----------------------------------------------------------------------------
Init ==
    /\ variant \in {"simulation", "simulation_py"}
    /\ (InputsCG \/ InputsLG \/ InputsLead \/ InputsRoute)
    /\ mode = "search"
    /\ pc = "for_x"
    /\ x = 0
    /\ pre_days = 0
    /\ stock = ZeroStock
    /\ day = 0
    /\ trips = 0
    /\ vids = <<>>
    /\ order = <<>>
    /\ dl = 0
    /\ future = ZeroStock
    /\ cand = <<>>
    /\ idx = 0
    /\ cg_records = <<>>
    /\ failed = {}
    /\ issued = 0
    /\ dry_log = <<>>
    /\ err = ""
    /\ lg_stock2 = ZeroStock
    /\ fps_stock2 = ZeroFps
    /\ needs = <<>>
    /\ Trips_Used = ZeroTrips
    /\ lgp_records = <<>>
    /\ stock_records = <<>>

----------------------------------------------------------------------------
(* Phase 1: feasibility search (can_meet_all) and production CG -> LG run *)

\* for x in range(CG_MAX_PRE_DAYS+1): if can_meet_all(x) ... else: raise
\* (simulation_py.py has no else branch: pre_days keeps its initial 0)
ForX ==
    /\ mode = "search" /\ pc = "for_x"
    /\ IF x <= CG_MAX_PRE_DAYS
       THEN /\ stock' = ZeroStock
            /\ day' = 1 - x
            /\ pc' = "day_start"
            /\ UNCHANGED <<mode, err>>
       ELSE IF variant = "simulation"
            THEN /\ mode' = "error"
                 /\ err' = "Infeasible"
                 /\ pc' = "raised"
                 /\ UNCHANGED <<stock, day>>
            ELSE /\ mode' = "cg"
                 /\ pc' = "prod_init"
                 /\ UNCHANGED <<stock, day, err>>
    /\ dry_log' = IF x <= CG_MAX_PRE_DAYS THEN <<>> ELSE dry_log
    /\ UNCHANGED phase2
    /\ UNCHANGED <<inputs, search, trips, vids, loopvars, cg_records, issued>>

\* start_day = 1 - pre_days; stock = {lg: 0.0}; cg_records = []
ProdInit ==
    /\ mode = "cg" /\ pc = "prod_init"
    /\ stock' = ZeroStock
    /\ cg_records' = <<>>
    /\ day' = 1 - pre_days
    /\ pc' = "day_start"
    /\ UNCHANGED <<phase2, dry_log>>
    /\ UNCHANGED <<inputs, mode, search, trips, vids, loopvars, issued, err>>

\* head of `for day in range(start, CG_TOTAL_DAYS+1)`; the dry run returns
\* True when the range is exhausted (its local stock dict is dropped), the
\* production run goes on to phase 2
DayStart ==
    /\ mode \in {"search", "cg"} /\ pc = "day_start"
    /\ IF day > CG_TOTAL_DAYS
       THEN /\ mode' = IF mode = "search" THEN "cg" ELSE "lg"
            /\ pc' = IF mode = "search" THEN "prod_init" ELSE "lg_init"
            /\ pre_days' = IF mode = "search" THEN x ELSE pre_days
            /\ stock' = IF mode = "search" THEN ZeroStock ELSE stock
            /\ UNCHANGED <<trips, vids, order, issued>>
       ELSE /\ trips' = NUM_CG_VEHICLES
            /\ vids' = IF mode = "cg" THEN SeqOfSet(1..NUM_CG_VEHICLES) ELSE vids
            /\ issued' = 0
            /\ order' = IF day >= 1
                        THEN (IF mode = "search" THEN IndexOrder
                                                 ELSE ServeOrder(stock, day))
                        ELSE <<>>
            /\ pc' = IF day >= 1 THEN "serve" ELSE "prestock_init"
            /\ UNCHANGED <<mode, pre_days, stock>>
    /\ UNCHANGED <<phase2, dry_log>>
    /\ UNCHANGED <<inputs, x, failed, day, dl, future, cand, idx,
                   cg_records, err>>

\* can_meet_all: one pass of `for lg in stock` of the serve step; `return
\* False` drops the local stock dict and the search loop takes the next offset
DryServe ==
    /\ mode = "search" /\ pc = "serve" /\ order # <<>>
    /\ LET lg == Head(order)
           need == Max(0, req[lg][day] - stock[lg])
           room == free_room(stock, lg)
           d == Min(need, room)
           used == Min(trips, ceil_div(d, CG_VEHICLE_CAP))
           after == stock[lg] + used * CG_VEHICLE_CAP
       IN /\ trips' = trips - used
          /\ issued' = issued + used
          /\ IF after < req[lg][day]
             THEN /\ failed' = failed \cup
                        {[x |-> x, day |-> day, lg |-> lg, stock |-> after]}
                  /\ stock' = ZeroStock
                  /\ x' = NextOffset(x)
                  /\ pc' = "for_x"
                  /\ UNCHANGED order
             ELSE /\ stock' = [stock EXCEPT ![lg] = after]
                  /\ order' = Tail(order)
                  /\ pc' = IF Tail(order) = <<>> THEN "prestock_init" ELSE "serve"
                  /\ UNCHANGED <<failed, x>>
    /\ UNCHANGED <<phase2, dry_log>>
    /\ UNCHANGED <<inputs, mode, pre_days, day, vids, dl, future, cand, idx,
                   cg_records, err>>

\* production run: next regional point of the sorted serve loop
ServeLG ==
    /\ mode = "cg" /\ pc = "serve"
    /\ IF order = <<>>
       THEN /\ pc' = "prestock_init"
            /\ UNCHANGED dl
       ELSE LET lg == Head(order)
                need == Max(0, req[lg][day] - stock[lg])
                room == free_room(stock, lg)
            IN /\ dl' = Min(need, room)
               /\ pc' = "serve_loop"
    /\ UNCHANGED <<phase2, dry_log>>
    /\ UNCHANGED <<inputs, mode, search, stock, day, trips, vids, order,
                   future, cand, idx, cg_records, issued, err>>

\* production run: body of `while trips>0 and dl>1e-6`
ServeLoad ==
    /\ mode = "cg" /\ pc = "serve_loop"
    /\ trips > 0 /\ dl > 0
    /\ LET lg == Head(order)
           vid == Head(vids)
           qty == Min(dl, CG_VEHICLE_CAP)
       IN /\ vids' = Tail(vids)
          /\ cg_records' = Append(cg_records, CgRecord(day, vid, lg, qty))
          /\ stock' = [stock EXCEPT ![lg] = @ + qty]
          /\ trips' = trips - 1
          /\ dl' = dl - qty
          /\ issued' = issued + 1
    /\ UNCHANGED <<phase2, dry_log>>
    /\ UNCHANGED <<inputs, mode, pc, search, day, order, future, cand, idx, err>>

\* production run: the while loop is left; `if trips==0: break`
ServeExit ==
    /\ mode = "cg" /\ pc = "serve_loop"
    /\ ~(trips > 0 /\ dl > 0)
    /\ IF trips = 0
       THEN /\ pc' = "prestock_init"
            /\ UNCHANGED order
       ELSE /\ order' = Tail(order)
            /\ pc' = "serve"
    /\ UNCHANGED <<phase2, dry_log>>
    /\ UNCHANGED <<inputs, mode, search, stock, day, trips, vids, dl,
                   future, cand, idx, cg_records, issued, err>>

\* `if trips > 0:` future = {...}; cand = [...]; idx = 0
PrestockInit ==
    /\ mode \in {"search", "cg"} /\ pc = "prestock_init"
    /\ IF trips > 0
       THEN /\ future' = FutureUnmet(stock, day)
            /\ cand' = Candidates(FutureUnmet(stock, day), stock)
            /\ idx' = 0
            /\ pc' = "prestock"
       ELSE /\ pc' = "consume"
            /\ UNCHANGED <<future, cand, idx>>
    /\ UNCHANGED <<phase2, dry_log>>
    /\ UNCHANGED <<inputs, mode, search, stock, day, trips, vids, order, dl,
                   cg_records, issued, err>>

\* mutation: the dry run books the tonnage the point can take, as the
\* production run does
DryLoad_exact(lg, d) ==
    IF d > 0
    THEN [stock |-> [stock EXCEPT ![lg] = @ + d],
          future |-> [future EXCEPT ![lg] = Max(0, @ - d)],
          trips |-> trips - 1, vids |-> vids, recs |-> cg_records,
          issued |-> issued + 1]
    ELSE [stock |-> stock, future |-> future, trips |-> trips, vids |-> vids,
          recs |-> cg_records, issued |-> issued]

\* stock, future and records after one body of `while trips>0 and cand`
\* in can_meet_all: a whole vehicle load is booked whatever the room
DryLoad(lg, d) ==
    IF d > 0
    THEN [stock |-> [stock EXCEPT ![lg] = @ + CG_VEHICLE_CAP],
          future |-> [future EXCEPT ![lg] = Max(0, @ - CG_VEHICLE_CAP)],
          trips |-> trips - 1, vids |-> vids, recs |-> cg_records,
          issued |-> issued + 1]
    ELSE [stock |-> stock, future |-> future, trips |-> trips, vids |-> vids,
          recs |-> cg_records, issued |-> issued]

\* mutation: the production run books a whole vehicle load, as the dry run does
ProdLoad_full(lg, d) ==
    IF d > 0
    THEN [stock |-> [stock EXCEPT ![lg] = @ + CG_VEHICLE_CAP],
          future |-> [future EXCEPT ![lg] = Max(0, @ - CG_VEHICLE_CAP)],
          trips |-> trips - 1, vids |-> Tail(vids),
          recs |-> Append(cg_records,
                          CgRecord(day, Head(vids), lg, CG_VEHICLE_CAP)),
          issued |-> issued + 1]
    ELSE [stock |-> stock, future |-> future, trips |-> trips, vids |-> vids,
          recs |-> cg_records, issued |-> issued]

\* the same body in the production run: qty = min(dl, CG_VEHICLE_CAP)
\* (simulation_py.py floors future at 0; qty <= future makes it the same)
ProdLoad(lg, d) ==
    IF d > 0
    THEN LET qty == Min(d, CG_VEHICLE_CAP)
         IN [stock |-> [stock EXCEPT ![lg] = @ + qty],
             future |-> [future EXCEPT ![lg] =
                            IF variant = "simulation" THEN @ - qty
                                                      ELSE Max(0, @ - qty)],
             trips |-> trips - 1, vids |-> Tail(vids),
             recs |-> Append(cg_records, CgRecord(day, Head(vids), lg, qty)),
             issued |-> issued + 1]
    ELSE [stock |-> stock, future |-> future, trips |-> trips, vids |-> vids,
          recs |-> cg_records, issued |-> issued]

\* one iteration of the round-robin pre-stock loop
PrestockIter ==
    /\ mode \in {"search", "cg"} /\ pc = "prestock"
    /\ trips > 0 /\ cand # <<>>
    /\ LET lg == cand[(idx % Len(cand)) + 1]
           d == Min3(CG_VEHICLE_CAP, future[lg], free_room(stock, lg))
           r == IF mode = "search" THEN DryLoad(lg, d) ELSE ProdLoad(lg, d)
           gone == r.future[lg] <= 0 \/ free_room(r.stock, lg) <= 0
       IN /\ stock' = r.stock
          /\ future' = r.future
          /\ trips' = r.trips
          /\ vids' = r.vids
          /\ cg_records' = r.recs
          /\ issued' = r.issued
          /\ cand' = IF gone THEN RemoveFirst(cand, lg) ELSE cand
          /\ idx' = IF gone THEN idx ELSE idx + 1
    /\ UNCHANGED <<phase2, dry_log>>
    /\ UNCHANGED <<inputs, mode, pc, search, day, order, dl, err>>

\* the pre-stock loop is left
PrestockExit ==
    /\ mode \in {"search", "cg"} /\ pc = "prestock"
    /\ ~(trips > 0 /\ cand # <<>>)
    /\ pc' = "consume"
    /\ UNCHANGED <<phase2, dry_log>>
    /\ UNCHANGED <<inputs, mode, search, stock, day, trips, vids, loopvars,
                   cg_records, issued, err>>

\* mutation: the day loop does not advance
Consume_stay ==
    /\ mode \in {"search", "cg"} /\ pc = "consume"
    /\ stock' = IF day >= 1
                THEN [lg \in LG_IDS |-> Max(0, stock[lg] - req[lg][day])]
                ELSE stock
    /\ day' = day
    /\ pc' = "day_start"
    /\ dry_log' = IF mode = "search"
                  THEN Append(dry_log, [day |-> day, stock |-> stock',
                                        issued |-> issued])
                  ELSE dry_log
    /\ UNCHANGED phase2
    /\ UNCHANGED <<inputs, mode, search, trips, vids, loopvars, cg_records,
                   issued, err>>

\* `if day >= 1:` stock[lg] = max(0, stock[lg] - req[lg][day]); next day
Consume ==
    /\ mode \in {"search", "cg"} /\ pc = "consume"
    /\ stock' = IF day >= 1
                THEN [lg \in LG_IDS |-> Max(0, stock[lg] - req[lg][day])]
                ELSE stock
    /\ day' = day + 1
    /\ pc' = "day_start"
    /\ dry_log' = IF mode = "search"
                  THEN Append(dry_log, [day |-> day, stock |-> stock',
                                        issued |-> issued])
                  ELSE dry_log
    /\ UNCHANGED phase2
    /\ UNCHANGED <<inputs, mode, search, trips, vids, loopvars, cg_records,
                   issued, err>>

----------------------------------------------------------------------------
(* Phase 2: LG -> FPS dispatch *)

phase1 == <<search, stock, trips, vids, loopvars, cg_records, issued, dry_log>>

\* mutation: the dispatcher starts from the stock the allocator ended with
LgInit_carry ==
    /\ mode = "lg" /\ pc = "lg_init"
    /\ lg_stock2' = stock
    /\ fps_stock2' = ZeroFps
    /\ lgp_records' = <<>>
    /\ stock_records' = <<>>
    /\ day' = 1
    /\ pc' = "lg_day"
    /\ UNCHANGED <<inputs, mode, phase1, needs, Trips_Used, err>>

\* lg_stock2 = dict(LG_ID -> Initial_Allocation_tons); fps_stock2 = 0.0;
\* lgp_records = []; stock_records = []
LgInit ==
    /\ mode = "lg" /\ pc = "lg_init"
    /\ lg_stock2' = lgs
    /\ fps_stock2' = ZeroFps
    /\ lgp_records' = <<>>
    /\ stock_records' = <<>>
    /\ day' = 1
    /\ pc' = "lg_day"
    /\ UNCHANGED <<inputs, mode, phase1, needs, Trips_Used, err>>

\* head of the day loop: consume FPS demand, compute and sort the needs,
\* veh["Trips_Used"] = 0; the run returns when the range is exhausted
LgDay ==
    /\ mode = "lg" /\ pc = "lg_day"
    /\ IF day > Horizon
       THEN /\ mode' = "done"
            /\ pc' = "returned"
            /\ UNCHANGED <<fps_stock2, needs, Trips_Used, err>>
       ELSE /\ fps_stock2' = ConsumeFps(fps_stock2)
            /\ IF DividesByZero(ConsumeFps(fps_stock2), lg_stock2) /\ fps_text
               THEN /\ mode' = "error"
                    /\ err' = "ZeroDivisionError"
                    /\ pc' = "raised"
                    /\ UNCHANGED <<needs, Trips_Used>>
               ELSE /\ needs' = SortNeeds(RawNeeds(ConsumeFps(fps_stock2), lg_stock2))
                    /\ Trips_Used' = ZeroTrips
                    /\ pc' = "assign"
                    /\ UNCHANGED <<mode, err>>
    /\ UNCHANGED <<inputs, phase1, day, lg_stock2, lgp_records, stock_records>>

\* one pass of `for _,fid,lgid,need in needs`
Assign ==
    /\ mode = "lg" /\ pc = "assign" /\ needs # <<>>
    /\ LET nd == Head(needs)
           c == VehCand(nd.lgid, Trips_Used)
           row == vehicles.rows[Truck(c)]
           vid == row.Vehicle_ID
           send == Send(row, nd, lg_stock2)
       IN IF c = <<>> \/ send <= 0
          THEN UNCHANGED <<lg_stock2, fps_stock2, Trips_Used, lgp_records>>
          ELSE /\ lgp_records' = Append(lgp_records,
                                        LgpRecord(day, vid, nd.lgid, nd.fid, send))
               /\ lg_stock2' = [lg_stock2 EXCEPT ![nd.lgid] = @ - send]
               /\ fps_stock2' = [fps_stock2 EXCEPT ![nd.fid] = @ + send]
               /\ Trips_Used' = [i \in VEH_ROWS |->
                                    IF vehicles.rows[i].Vehicle_ID = vid
                                    THEN Trips_Used[i] + 1 ELSE Trips_Used[i]]
    /\ needs' = Tail(needs)
    /\ UNCHANGED <<inputs, mode, pc, phase1, day, stock_records, err>>

\* record stocks, next day
Snapshot ==
    /\ mode = "lg" /\ pc = "assign" /\ needs = <<>>
    /\ stock_records' = stock_records \o DaySnapshot(day, lg_stock2, fps_stock2)
    /\ day' = day + 1
    /\ pc' = "lg_day"
    /\ UNCHANGED <<inputs, mode, phase1, lg_stock2, fps_stock2, needs,
                   Trips_Used, lgp_records, err>>

Next ==
    \/ ForX
    \/ ProdInit
    \/ DayStart
    \/ DryServe
    \/ ServeLG
    \/ ServeLoad
    \/ ServeExit
    \/ PrestockInit
    \/ PrestockIter
    \/ PrestockExit
    \/ Consume
    \/ LgInit
    \/ LgDay
    \/ Assign
    \/ Snapshot

Spec == Init /\ [][Next]_vars

----------------------------------------------------------------------------
(* can_meet_all applied to every offset *)

\* can_meet_all(x) has returned True; the next offset is evaluated as well
\* (the search loop itself stops here)
DryReturn ==
    /\ mode = "search" /\ pc = "day_start"
    /\ day > CG_TOTAL_DAYS
    /\ x' = NextOffset(x)
    /\ stock' = ZeroStock
    /\ pc' = "for_x"
    /\ UNCHANGED <<phase2, dry_log>>
    /\ UNCHANGED <<inputs, mode, pre_days, failed, day, trips, vids, loopvars,
                   cg_records, issued, err>>

\* the requirement and capacity tables vary
InitOffsets == Init /\ InputsCG

NextOffsets ==
    \/ (x <= CG_MAX_PRE_DAYS /\ ForX)
    \/ (day <= CG_TOTAL_DAYS /\ DayStart)
    \/ DryServe
    \/ PrestockInit
    \/ PrestockIter
    \/ PrestockExit
    \/ Consume
    \/ DryReturn

SpecOffsets == InitOffsets /\ [][NextOffsets]_vars

----------------------------------------------------------------------------
(* The pre-stock step on its own, over three regional points *)

LG_IDS3 == {1, 2, 3}

\* the allocator stands before the pre-stock step of day 1 of the run with
\* offset 0: no regional point has a requirement on day 1, so the serve step
\* issued nothing and every stock is 0; TripsLeft vehicles are free.  The
\* requirements of the later days and the capacities vary.
InitPrestock ==
    /\ variant \in {"simulation", "simulation_py"}
    /\ req \in {[lg \in LG_IDS3 |-> [d \in DAYS |-> IF d = 1 THEN 0 ELSE a[lg]]] :
                   a \in [LG_IDS3 -> 0..MaxReq]}
    /\ capacity \in [LG_IDS3 -> 1..MaxCap]
    /\ settings = FixedSettings
    /\ lgs = FixedLgs
    /\ fps = FixedFps
    /\ fps_text = TRUE
    /\ vehicles = FixedVehicles
    /\ mode \in {"search", "cg"}
    /\ pc = "prestock_init"
    /\ x = 0
    /\ pre_days = 0
    /\ stock = [lg \in LG_IDS3 |-> 0]
    /\ day = 1
    /\ trips = TripsLeft
    /\ vids = IF mode = "cg" THEN SeqOfSet(1..TripsLeft) ELSE <<>>
    /\ order = <<>>
    /\ dl = 0
    /\ future = [lg \in LG_IDS3 |-> 0]
    /\ cand = <<>>
    /\ idx = 0
    /\ cg_records = <<>>
    /\ failed = {}
    /\ issued = 0
    /\ dry_log = <<>>
    /\ err = ""
    /\ lg_stock2 = ZeroStock
    /\ fps_stock2 = ZeroFps
    /\ needs = <<>>
    /\ Trips_Used = ZeroTrips
    /\ lgp_records = <<>>
    /\ stock_records = <<>>

NextPrestock ==
    \/ PrestockInit
    \/ PrestockIter
    \/ PrestockExit

SpecPrestock == InitPrestock /\ [][NextPrestock]_vars

----------------------------------------------------------------------------
(* Properties of the feasibility search and the CG -> LG run *)

\* the search returned pre_days: can_meet_all(pre_days) did not return False
Found == ~(\E f \in failed : f.x = pre_days)

\* can_meet_all returned False for every offset 0..CG_MAX_PRE_DAYS
AllFailed == \A x0 \in 0..CG_MAX_PRE_DAYS : \E f \in failed : f.x = x0

\* the production run stands before the consume step of a day >= 1
BeforeConsume == mode = "cg" /\ pc = "consume" /\ day >= 1

Shortfall == \E lg \in LG_IDS : stock[lg] < req[lg][day]

\* C1: for the offset returned by the search, the production run never has a
\* shortfall: before the consume step of every day >= 1 every regional
\* point's stock is at least that day's requirement.
C1_NoShortfallForChosenOffset ==
    (BeforeConsume /\ Found) => ~Shortfall

\* C2: when the dry simulation failed for every offset the run fails with
\* Infeasible and produces no transfer table; it never goes on to the
\* production run with a default offset.
C2_InfeasibleRaises ==
    AllFailed => /\ mode \in {"search", "error"}
                 /\ mode = "error" => err = "Infeasible"
                 /\ cg_records = <<>>

\* C3: the offset returned is minimal: offsets are tried in the order
\* 0, 1, 2, ... and every offset below the one in use has a dry run with a
\* day >= 1 and a regional point whose post-delivery stock is below that
\* day's requirement.
C3_MinimalOffset ==
    LET FailedAt(x0) == \E f \in failed :
                            /\ f.x = x0
                            /\ f.day >= 1
                            /\ f.stock < req[f.lg][f.day]
    IN /\ mode = "search" => \A x0 \in 0..(x - 1) : FailedAt(x0)
       /\ (mode \in {"cg", "lg", "done"} /\ Found) =>
              \A x0 \in 0..(pre_days - 1) : FailedAt(x0)

\* a search that returned a positive offset after failures of all smaller ones
C3_Witness ==
    mode = "cg" /\ Found /\ pre_days >= 1 /\ cg_records # <<>>

\* C4: a shortfall before the consume step of a day >= 1 of the production
\* run aborts the run with a fatal error; the run does not floor the stock
\* at zero and go on to the next day.
C4_ShortfallAborts ==
    [][(BeforeConsume /\ Shortfall) => mode' = "error"]_vars

\* C5: in the production run every regional point's stock stays within
\* 0 .. capacity in every state, after every transfer and every consume step.
C5_RegionalStockInRange ==
    mode \in {"cg", "lg", "done"} =>
        \A lg \in LG_IDS : 0 <= stock[lg] /\ stock[lg] <= capacity[lg]

\* a pre-position transfer on a day <= 0 has filled a regional point exactly
C5_Witness ==
    /\ mode = "cg" /\ pc = "prestock" /\ day <= 0
    /\ cg_records # <<>>
    /\ \E lg \in LG_IDS : stock[lg] = capacity[lg] /\ capacity[lg] % CG_VEHICLE_CAP # 0

----------------------------------------------------------------------------
(* Properties of the LG -> FPS dispatch and of the transfer tables *)

\* C6: every outlet's stock stays within 0 .. Max_Capacity_tons after every
\* consumption step and every transfer, and so does every outlet row of the
\* snapshot table.
C6_OutletStockInRange ==
    /\ \A fid \in FPS_IDS :
          0 <= fps_stock2[fid] /\ fps_stock2[fid] <= fps[fid].Max_Capacity_tons
    /\ \A i \in DOMAIN stock_records :
          stock_records[i].Entity_Type = "FPS" =>
              /\ 0 <= stock_records[i].Stock_Level_tons
              /\ stock_records[i].Stock_Level_tons
                    <= fps[stock_records[i].Entity_ID].Max_Capacity_tons

\* a transfer by a vehicle larger than the outlet filled the outlet exactly
\* and the day's snapshot shows it
C6_Witness ==
    \E i \in DOMAIN stock_records, j \in DOMAIN lgp_records :
        /\ stock_records[i].Entity_Type = "FPS"
        /\ stock_records[i].Day = lgp_records[j].Day
        /\ stock_records[i].Entity_ID = lgp_records[j].FPS_ID
        /\ stock_records[i].Stock_Level_tons
              = fps[stock_records[i].Entity_ID].Max_Capacity_tons
        /\ \E v \in VEH_ROWS :
              /\ vehicles.rows[v].Vehicle_ID = lgp_records[j].Vehicle_ID
              /\ Capacity(vehicles.rows[v]) > lgp_records[j].Quantity_tons

\* number of records of table recs with the given day and vehicle id
TripsOn(recs, d, vid) ==
    Cardinality({i \in DOMAIN recs : recs[i].Day = d /\ recs[i].Vehicle_ID = vid})

\* C7: no vehicle id has more records on one day than the configured maximum
\* trips per vehicle per day: in the outlet tier by the trip counter, in the
\* source tier because an id is handed out at most once a day and the id
\* list lasts as long as the trip budget.
C7_TripsPerVehiclePerDay ==
    /\ \A i \in DOMAIN lgp_records :
          TripsOn(lgp_records, lgp_records[i].Day, lgp_records[i].Vehicle_ID)
              <= trips_per
    /\ \A i \in DOMAIN cg_records :
          /\ TripsOn(cg_records, cg_records[i].Day, cg_records[i].Vehicle_ID) <= 1
          /\ TripsOn(cg_records, cg_records[i].Day, cg_records[i].Vehicle_ID)
                <= trips_per
    /\ (mode = "cg" /\ pc \in {"serve", "serve_loop", "prestock_init", "prestock"})
          => /\ Len(vids) >= trips
             /\ \A k \in 1..Len(vids) : TripsOn(cg_records, day, vids[k]) = 0

\* a need is pending for a regional point whose only eligible vehicle has
\* used all its trips of the day
C7_Witness ==
    /\ mode = "lg" /\ pc = "assign" /\ needs # <<>>
    /\ VehCand(Head(needs).lgid, ZeroTrips) # <<>>
    /\ VehCand(Head(needs).lgid, Trips_Used) = <<>>
    /\ \E v \in VEH_ROWS :
          TripsOn(lgp_records, day, vehicles.rows[v].Vehicle_ID) = trips_per

\* C8: every record of either table has 0 < quantity <= the capacity of the
\* vehicle it names (CG_VEHICLE_CAP in the source tier, the vehicle's own or
\* default capacity in the outlet tier).
C8_QuantityWithinVehicleCapacity ==
    /\ \A i \in DOMAIN cg_records :
          /\ 0 < cg_records[i].Quantity_tons
          /\ cg_records[i].Quantity_tons <= CG_VEHICLE_CAP
    /\ \A i \in DOMAIN lgp_records :
          /\ 0 < lgp_records[i].Quantity_tons
          /\ \A v \in VEH_ROWS :
                vehicles.rows[v].Vehicle_ID = lgp_records[i].Vehicle_ID
                    => lgp_records[i].Quantity_tons <= Capacity(vehicles.rows[v])

\* an outlet that could take more received exactly the load of a vehicle
\* running on the default capacity
C8_Witness ==
    \E i \in DOMAIN lgp_records, v \in VEH_ROWS :
        /\ vehicles.rows[v].Vehicle_ID = lgp_records[i].Vehicle_ID
        /\ vehicles.rows[v].Capacity_tons = NaN
        /\ lgp_records[i].Quantity_tons = Capacity(vehicles.rows[v])
        /\ lgp_records[i].Quantity_tons
              < fps[lgp_records[i].FPS_ID].Max_Capacity_tons

\* a day of the source tier (dry or production run) stands before its consume step
DayDone == mode \in {"search", "cg"} /\ pc = "consume"

\* some regional point's requirement of the day is not covered
ServeNeedLeft == day >= 1 /\ \E lg \in LG_IDS : req[lg][day] - stock[lg] > 0

\* some regional point has unmet need of the day and room to take it
DeliverableNeedLeft ==
    day >= 1 /\ \E lg \in LG_IDS :
                   Min(Max(0, req[lg][day] - stock[lg]), free_room(stock, lg)) > 0

\* some regional point has unmet future requirement and free room
CandidateLeft ==
    \E lg \in LG_IDS : FutureUnmet(stock, day)[lg] > 0 /\ free_room(stock, lg) > 0

----------------------------------------------------------------------------
(* The order in which the outlets' needs are processed *)

\* the urgency (thr - cur)/Daily_Demand_tons of outlet f equals k, for the
\* current outlet stock
UrgIs(f, k) ==
    /\ Daily_Demand_tons(fps[f]) > 0
    /\ Reorder_Threshold_tons(fps[f]) - fps_stock2[f] = k * Daily_Demand_tons(fps[f])

\* the vehicles whose route holds regional point lg
RoutedTo(lg) == {i \in VEH_ROWS : lg \in Range(Mapped_LGs_List(vehicles.rows[i]))}

\* the needs of the day are computed and none is processed yet: outlets a and
\* b both have a need, with urgency 1 and 5, at the same regional point, which
\* a single vehicle with a single trip serves
OneTripTwoNeeds(a, b) ==
    /\ mode = "lg" /\ pc = "assign" /\ Len(needs) = 2
    /\ a # b
    /\ UrgIs(a, 1) /\ UrgIs(b, 5)
    /\ fps[a].LG_ID = fps[b].LG_ID
    /\ Cardinality(RoutedTo(fps[a].LG_ID)) = 1
    /\ trips_per = 1
    /\ Trips_Used = ZeroTrips

\* the step appends one dispatch record, for outlet f
DispatchesTo(f) ==
    /\ Len(lgp_records') = Len(lgp_records) + 1
    /\ lgp_records'[Len(lgp_records')].FPS_ID = f

\* C11 as claimed: two outlets are at or below their threshold on the same
\* day with urgency 1 and 5 and a single eligible vehicle has one trip; the
\* outlet with urgency 1 is served first.
C11_UrgencyOneServedFirst ==
    [][\A a, b \in FPS_IDS : OneTripTwoNeeds(a, b) => DispatchesTo(a)]_vars

\* C11 amended: in that situation the first dispatch of the day goes to the
\* outlet with urgency 5 (the larger ratio), and the outlet with urgency 1
\* gets nothing from that vehicle that day.
C11_UrgencyFiveServedFirst ==
    [][\A a, b \in FPS_IDS : OneTripTwoNeeds(a, b) => DispatchesTo(b)]_vars

\* day 1 (outlet stock 0, so the urgency is the lead time): the outlet with
\* lead time 5 has received the only trip, the outlet with lead time 1 is
\* still pending and no vehicle is left for it
C11_Witness ==
    /\ mode = "lg" /\ pc = "assign" /\ day = 1
    /\ trips_per = 1
    /\ Len(lgp_records) = 1 /\ Len(needs) = 1
    /\ Lead_Time_days(fps[lgp_records[1].FPS_ID]) = 5
    /\ Lead_Time_days(fps[needs[1].fid]) = 1
    /\ needs[1].fid # lgp_records[1].FPS_ID
    /\ needs[1].lgid = lgp_records[1].LG_ID
    /\ Cardinality(RoutedTo(needs[1].lgid)) = 1
    /\ \A i \in RoutedTo(needs[1].lgid) : Trips_Used[i] = trips_per

\* the stock of outlet f in the snapshot of day d (0 before day 1)
EndStock(f, d) ==
    IF d = 0 THEN 0
    ELSE (CHOOSE r \in Range(stock_records) :
             r.Day = d /\ r.Entity_Type = "FPS" /\ r.Entity_ID = f).Stock_Level_tons

\* the stock of outlet f on day d after the day's consumption
PostConsumption(f, d) == Max(0, EndStock(f, d - 1) - Daily_Demand_tons(fps[f]))

\* (threshold - post-consumption stock) of outlet f on day d
Deficit(f, d) == Reorder_Threshold_tons(fps[f]) - PostConsumption(f, d)

\* urgency of a on day d >= urgency of b; false when either is nan
UrgencyGE(a, b, d) ==
    /\ Daily_Demand_tons(fps[a]) > 0 /\ Daily_Demand_tons(fps[b]) > 0
    /\ Deficit(a, d) * Daily_Demand_tons(fps[b])
          >= Deficit(b, d) * Daily_Demand_tons(fps[a])

\* C12: of two outlet-tier transfers recorded on the same day the earlier one
\* belongs to the outlet with the larger or equal urgency value
\* (threshold - post-consumption stock) / daily demand, and outlets of equal
\* urgency are served in registry order.
C12_NonIncreasingUrgency ==
    \A i, j \in DOMAIN lgp_records :
        (i < j /\ lgp_records[i].Day = lgp_records[j].Day) =>
            LET a == lgp_records[i].FPS_ID
                b == lgp_records[j].FPS_ID
                d == lgp_records[i].Day
            IN /\ UrgencyGE(a, b, d)
               /\ UrgencyGE(b, a, d) => a < b

----------------------------------------------------------------------------
(* One need of the day is processed *)

\* the vehicles that can take a need of regional point lg now
Available(lg) ==
    {i \in VEH_ROWS : /\ lg \in Range(Mapped_LGs_List(vehicles.rows[i]))
                      /\ Trips_Used[i] < trips_per}

\* nothing but the list of pending needs changes
NoTransfer == UNCHANGED <<lg_stock2, fps_stock2, Trips_Used, lgp_records>>

\* vehicle row i carries q tons for need nd
TransferBy(i, nd, q) ==
    /\ lgp_records' = Append(lgp_records,
                             [Day |-> day, Vehicle_ID |-> vehicles.rows[i].Vehicle_ID,
                              LG_ID |-> nd.lgid, FPS_ID |-> nd.fid,
                              Quantity_tons |-> q])
    /\ lg_stock2' = [lg_stock2 EXCEPT ![nd.lgid] = lg_stock2[nd.lgid] - q]
    /\ fps_stock2' = [fps_stock2 EXCEPT ![nd.fid] = fps_stock2[nd.fid] + q]
    /\ Trips_Used' = [Trips_Used EXCEPT ![i] = Trips_Used[i] + 1]

\* C13: when the dispatcher processes a need and a vehicle routed to the
\* outlet's regional point has trips left, it records exactly one transfer of
\* min(vehicle capacity, need quantity, current regional stock) if that is
\* positive, and in the same step the regional stock falls and the outlet
\* stock rises by that quantity and the vehicle's trip counter rises by one;
\* with a quantity <= 0 or no vehicle, stocks, counters and the transfer table
\* stay as they are.
C13_OneTransferPerNeed ==
    [][(mode = "lg" /\ pc = "assign" /\ needs # <<>>) =>
          LET nd == Head(needs)
          IN IF Available(nd.lgid) = {}
             THEN NoTransfer
             ELSE \E i \in Available(nd.lgid) :
                     LET q == Min(Min(Capacity(vehicles.rows[i]), nd.qty),
                                  lg_stock2[nd.lgid])
                     IN IF q > 0 THEN TransferBy(i, nd, q) ELSE NoTransfer]_vars

\* the last two transfers of the day left the same regional point, and the
\* second one was cut to the stock the first one left there: it emptied the
\* regional point although vehicle and outlet could take more
C13_Witness ==
    /\ mode = "lg" /\ pc = "assign"
    /\ Len(lgp_records) >= 2
    /\ LET n == Len(lgp_records)
           r == lgp_records[n]
       IN /\ r.Day = day /\ lgp_records[n - 1].Day = day
          /\ lgp_records[n - 1].LG_ID = r.LG_ID
          /\ lg_stock2[r.LG_ID] = 0
          /\ fps_stock2[r.FPS_ID] < fps[r.FPS_ID].Max_Capacity_tons
          /\ \A v \in VEH_ROWS :
                vehicles.rows[v].Vehicle_ID = r.Vehicle_ID
                    => r.Quantity_tons < Capacity(vehicles.rows[v])

----------------------------------------------------------------------------
(* Outlets without demand *)

\* C14: the dispatcher never evaluates the urgency ratio
\* (threshold - stock) / daily demand with a zero divisor: the run does not
\* stop on the division and no need carries a ratio taken over zero.
C14_NoZeroDivisor ==
    /\ err # "ZeroDivisionError"
    /\ \A i \in DOMAIN needs : needs[i].urg.d # 0

----------------------------------------------------------------------------
(* The stock snapshot table *)

RECURSIVE QtySum(_)
\* total tonnage of a sequence of transfer records
QtySum(recs) ==
    IF recs = <<>> THEN 0 ELSE Head(recs).Quantity_tons + QtySum(Tail(recs))

\* tonnage that left regional point lg up to and including day d
LgOut(lg, d) ==
    QtySum(SelectSeq(lgp_records, LAMBDA r : r.LG_ID = lg /\ r.Day <= d))

\* tonnage that outlet f received on day d
FpsIn(f, d) ==
    QtySum(SelectSeq(lgp_records, LAMBDA r : r.FPS_ID = f /\ r.Day = d))

\* the dispatcher's day loop is running or has stopped on an error
Dispatching ==
    \/ mode = "lg" /\ pc \in {"lg_day", "assign"}
    \/ mode = "error" /\ err = "ZeroDivisionError"

\* the days of the dispatcher that are complete
DaysDone == IF Dispatching \/ mode = "done" THEN day - 1 ELSE 0

\* the snapshot rows of entity (type, id) for day d
RowsOf(type, id, d) ==
    {i \in DOMAIN stock_records : /\ stock_records[i].Day = d
                                  /\ stock_records[i].Entity_Type = type
                                  /\ stock_records[i].Entity_ID = id}

\* the table holds, for every complete day and nothing else, one row per
\* regional point and one per outlet with the entity's stock at the end of
\* that day; after the last day it has Horizon x (points + outlets) rows
SnapshotTable ==
    /\ Len(stock_records) = DaysDone * (Cardinality(LG_IDS) + Cardinality(FPS_IDS))
    /\ mode = "done" => DaysDone = Horizon
    /\ \A d \in 1..DaysDone :
          /\ \A lg \in LG_IDS :
                /\ Cardinality(RowsOf("LG", lg, d)) = 1
                /\ \A i \in RowsOf("LG", lg, d) :
                      stock_records[i].Stock_Level_tons = lgs[lg] - LgOut(lg, d)
          /\ \A f \in FPS_IDS :
                /\ Cardinality(RowsOf("FPS", f, d)) = 1
                /\ \A i \in RowsOf("FPS", f, d) :
                      stock_records[i].Stock_Level_tons
                          = PostConsumption(f, d) + FpsIn(f, d)

\* C15: for every day of the horizon the dispatcher appends exactly one
\* snapshot row per regional point and per outlet, after all of the day's
\* assignments, holding the entity's stock at the end of that day; the
\* finished table has Horizon x (regional points + outlets) rows, and rows
\* once written are never modified.
C15_SnapshotPerDayAndEntity ==
    [][/\ SnapshotTable'
       /\ Len(stock_records') >= Len(stock_records)
       /\ \A i \in DOMAIN stock_records : stock_records'[i] = stock_records[i]]_vars

\* a finished run of at least two days in which an outlet was supplied and
\* ends a day with stock
C15_Witness ==
    /\ mode = "done" /\ Horizon >= 2
    /\ lgp_records # <<>>
    /\ Len(stock_records) = Horizon * (Cardinality(LG_IDS) + Cardinality(FPS_IDS))
    /\ \E i \in DOMAIN stock_records :
          /\ stock_records[i].Entity_Type = "FPS"
          /\ stock_records[i].Day = Horizon
          /\ stock_records[i].Stock_Level_tons > 0

----------------------------------------------------------------------------
(* The dispatcher's output as a function of the dispatcher's tables *)

RECURSIVE AssignAll(_, _, _)
\* the assignment loop of day d over the ranked needs ns, from state s
AssignAll(s, ns, d) ==
    IF ns = <<>> THEN s
    ELSE LET nd == Head(ns)
             c == VehCand(nd.lgid, s.used)
             row == vehicles.rows[Truck(c)]
             q == Min(Min(Capacity(row), nd.qty), s.lst[nd.lgid])
         IN IF c = <<>> \/ q <= 0
            THEN AssignAll(s, Tail(ns), d)
            ELSE AssignAll(
                   [s EXCEPT
                      !.lgp = Append(@, LgpRecord(d, row.Vehicle_ID, nd.lgid, nd.fid, q)),
                      !.lst[nd.lgid] = @ - q,
                      !.fst[nd.fid] = @ + q,
                      !.used = [i \in VEH_ROWS |->
                                   IF vehicles.rows[i].Vehicle_ID = row.Vehicle_ID
                                   THEN @[i] + 1 ELSE @[i]]],
                   Tail(ns), d)

RECURSIVE DispatchFrom(_, _)
\* days d..Horizon of the dispatcher from state s
DispatchFrom(d, s) ==
    IF d > Horizon THEN s
    ELSE LET fst1 == ConsumeFps(s.fst)
             a == AssignAll([s EXCEPT !.fst = fst1, !.used = ZeroTrips],
                            SortNeeds(RawNeeds(fst1, s.lst)), d)
         IN DispatchFrom(d + 1,
                         [a EXCEPT !.snap = @ \o DaySnapshot(d, a.lst, a.fst)])

\* the tables a complete dispatcher run yields from the configured initial
\* allocations; no requirement, capacity or allocator stock enters
DispatchOfTables ==
    DispatchFrom(1, [lst |-> lgs, fst |-> ZeroFps, used |-> ZeroTrips,
                     lgp |-> <<>>, snap |-> <<>>])

\* C16: the dispatcher starts day 1 from each regional point's configured
\* initial allocation, not from the allocator's ending stock, and its
\* transfer table and snapshot table are determined by the dispatcher's own
\* tables: runs that differ only in the requirement and capacity tables
\* return the same outlet-tier transfers and snapshots.
C16_DispatcherIndependentOfAllocator ==
    /\ (mode = "lg" /\ pc = "lg_day" /\ day = 1) => lg_stock2 = lgs
    /\ mode = "done" => /\ lgp_records = DispatchOfTables.lgp
                        /\ stock_records = DispatchOfTables.snap

\* a finished run whose allocator delivered loads and ended with regional
\* stock different from the initial allocation, and whose dispatcher moved
\* stock to outlets
C16_Witness ==
    /\ mode = "done"
    /\ cg_records # <<>>
    /\ stock # lgs
    /\ lgp_records # <<>>

----------------------------------------------------------------------------
(* A single regional point the fleet can always supply *)

\* only regional point 1 has requirements, each within its capacity and
\* within the day's deliverable tonnage, and it needs something on day 1
OnePointWithinReach ==
    /\ \A lg \in LG_IDS \ {1} : \A d \in DAYS : req[lg][d] = 0
    /\ \A d \in DAYS : /\ req[1][d] <= capacity[1]
                       /\ req[1][d] <= NUM_CG_VEHICLES * CG_VEHICLE_CAP
    /\ req[1][1] > 0

\* the search has returned, with offset 0 and without a failed dry run
ReturnsZero ==
    /\ failed = {} /\ err = ""
    /\ mode \in {"cg", "lg", "done"} => pre_days = 0

\* the production run has left the serve step of day 1
AfterServe1 == mode = "cg" /\ day = 1 /\ pc = "prestock_init"

\* the production run has left the consume step of day 1
AfterConsume1 == mode = "cg" /\ day = 2 /\ pc = "day_start"

\* what the day-1 pre-stock step brings to point 1: the requirement of the
\* later days beyond the stock on hand, within the free room and the trips
\* the serve step left
PrePositioned1 ==
    Min3(Max(0, SumTo(req[1], 2, CG_TOTAL_DAYS) - req[1][1]),
         capacity[1] - req[1][1],
         (NUM_CG_VEHICLES - ceil_div(req[1][1], CG_VEHICLE_CAP)) * CG_VEHICLE_CAP)

\* C17 as claimed: for a single regional point with zero initial stock and
\* requirements within its capacity and the daily deliverable tonnage the
\* search returns offset 0, the production stock right after the day-1 serve
\* step is the day-1 requirement, and it is 0 after the day-1 consume step.
C17_ServedThenEmpty ==
    OnePointWithinReach =>
        /\ ReturnsZero
        /\ AfterServe1 => stock[1] = req[1][1]
        /\ AfterConsume1 => stock[1] = 0

\* C17 amended: the search returns offset 0 and the stock right after the
\* day-1 serve step is the day-1 requirement; after the day-1 consume step
\* the stock is what the day-1 pre-stock step brought in for later days,
\* which is 0 exactly when the later requirements do not exceed the day-1
\* requirement (or no room or trip is left).
C17_ServedThenPrePositioned ==
    OnePointWithinReach =>
        /\ ReturnsZero
        /\ AfterServe1 => stock[1] = req[1][1]
        /\ AfterConsume1 => stock[1] = PrePositioned1

\* the point was served on day 1 and holds pre-positioned stock after the
\* day-1 consume step
C17_Witness ==
    /\ OnePointWithinReach
    /\ AfterConsume1
    /\ stock[1] > 0
    /\ \E i \in DOMAIN cg_records : cg_records[i].Day = 1

----------------------------------------------------------------------------
(* Vehicles without a usable route *)

\* the route cell of vehicle row i holds no numeric token: it is empty (the
\* cell reads "nan" or "") or holds non-numeric text only
NoRoute(i) ==
    /\ vehicles.has_routes
    /\ \A k \in DOMAIN vehicles.rows[i].Mapped_LG_IDs :
          ~vehicles.rows[i].Mapped_LG_IDs[k].isdigit

\* a need is being processed
Assigning == mode = "lg" /\ pc = "assign" /\ needs # <<>>

\* some vehicle without a usable route has a trip left, and the regional
\* point of the need has stock to send
IdleNoRouteVehicle ==
    /\ \E i \in VEH_ROWS : NoRoute(i) /\ Trips_Used[i] < trips_per
    /\ lg_stock2[Head(needs).lgid] > 0

\* C18 as claimed: a vehicle whose route list is empty, or empty once the
\* non-numeric tokens are dropped, is eligible for every regional point like
\* a vehicle without a route field: while it has a trip left, a need with
\* stock behind it is served.
C18_EmptyRouteServesAll ==
    [][(Assigning /\ IdleNoRouteVehicle)
          => Len(lgp_records') = Len(lgp_records) + 1]_vars

\* C18 amended: a vehicle whose route list is empty or resolves to empty is
\* eligible for no regional point: it is never given a trip, and a need is
\* left unserved when only such vehicles have trips left.  Every vehicle is
\* eligible for every regional point only when the route column is absent
\* (simulation.py): then a need with stock behind it is served as long as any
\* vehicle has a trip left.
C18_EmptyRouteServesNone ==
    [][Assigning =>
          /\ \A i \in VEH_ROWS : NoRoute(i) => Trips_Used'[i] = Trips_Used[i]
          /\ (vehicles.has_routes
                /\ \A i \in VEH_ROWS : Trips_Used[i] < trips_per => NoRoute(i))
                => lgp_records' = lgp_records
          /\ (~vehicles.has_routes
                /\ (\E i \in VEH_ROWS : Trips_Used[i] < trips_per)
                /\ lg_stock2[Head(needs).lgid] > 0)
                => Len(lgp_records') = Len(lgp_records) + 1]_vars

\* the day's needs are all processed, an outlet that got nothing today is
\* still in need with stock at its regional point, and a vehicle without a
\* usable route has not made a trip
C18_Witness ==
    /\ mode = "lg" /\ pc = "assign" /\ needs = <<>>
    /\ \E i \in VEH_ROWS : NoRoute(i) /\ Trips_Used[i] = 0
    /\ \E f \in FPS_IDS :
          /\ HasNeed(fps[f], fps_stock2, lg_stock2)
          /\ \A k \in DOMAIN lgp_records :
                ~(lgp_records[k].Day = day /\ lgp_records[k].FPS_ID = f)

----------------------------------------------------------------------------
(* The dry run against the production run *)

\* the production run, started with the offset whose dry run succeeded, has
\* finished a day the dry run went through
ProductionDayEnded ==
    /\ mode = "cg" /\ Found /\ pc = "day_start"
    /\ \E k \in DOMAIN dry_log : dry_log[k].day = day - 1

\* C19: the dry run of the feasibility search and the production run are the
\* same decision logic: started with the same offset they spend the same
\* number of trips on every day and leave every regional point with the same
\* stock at the end of every day.
C19_DryRunMatchesProduction ==
    ProductionDayEnded =>
        \A k \in DOMAIN dry_log :
            dry_log[k].day = day - 1 =>
                /\ dry_log[k].stock = stock
                /\ dry_log[k].issued = issued

----------------------------------------------------------------------------
(* The order of the pre-position loads *)

\* the regional point of the k-th load of the production run
LoadTo(k) == cg_records[k].LG_ID

\* loads i and j are consecutive loads to the same regional point
ConsecutiveLoads(i, j) ==
    /\ i < j /\ LoadTo(i) = LoadTo(j)
    /\ \A k \in (i + 1)..(j - 1) : LoadTo(k) # LoadTo(i)

\* regional point e is still a candidate after load j: it is in the list now
\* or received a later load
RemainsAfter(e, j) ==
    \/ e \in Range(cand)
    \/ \E k \in (j + 1)..Len(cg_records) : LoadTo(k) = e

\* C20: the loads of a day's pre-position step are issued in round-robin
\* order over the candidate list, also across the removal of an exhausted
\* candidate: between two consecutive loads to the same candidate every other
\* candidate that stays in the list throughout receives exactly one load.
C20_RoundRobinLoads ==
    (mode = "cg" /\ pc \in {"prestock", "consume"}) =>
        \A i, j \in DOMAIN cg_records :
            ConsecutiveLoads(i, j) =>
                \A e \in DOMAIN req \ {LoadTo(i)} :
                    RemainsAfter(e, j) =>
                        Cardinality({k \in (i + 1)..(j - 1) : LoadTo(k) = e}) = 1

----------------------------------------------------------------------------
(* The serve step of the production run *)

\* the production run has left the serve step of a day >= 1 (no pre-position
\* load of the day is issued yet)
ServeStepDone == mode = "cg" /\ pc = "prestock_init" /\ day >= 1

\* tonnage the serve step of the current day brought to regional point lg
ServedToday(lg) ==
    QtySum(SelectSeq(cg_records, LAMBDA r : r.Day = day /\ r.LG_ID = lg))

\* stock of lg when the serve step began
StockAtServe(lg) == stock[lg] - ServedToday(lg)

\* requirement - stock at the start of the step: the sort key
UnmetAtServe(lg) == req[lg][day] - StockAtServe(lg)

\* what the step had to bring to lg: min(unmet need, free room)
DueAtServe(lg) ==
    Min(Max(0, UnmetAtServe(lg)), Max(0, capacity[lg] - StockAtServe(lg)))

\* lg comes before other in the serve order: larger unmet need, index order
\* among equals
ServedBefore(lg, other) ==
    \/ UnmetAtServe(lg) > UnmetAtServe(other)
    \/ UnmetAtServe(lg) = UnmetAtServe(other) /\ lg < other

\* C21: the serve step of the production run takes the regional points in
\* descending order of unmet need at the start of the step, gives each one
\* loads until min(unmet need, free room) is delivered or the budget is zero,
\* and serves nobody once the budget is zero: a point that received a load
\* had unmet need >= that of every point the exhausted budget left out.
C21_ServeByDescendingNeed ==
    ServeStepDone =>
        /\ \A lg \in LG_IDS : ServedToday(lg) <= DueAtServe(lg)
        /\ trips > 0 => \A lg \in LG_IDS : ServedToday(lg) = DueAtServe(lg)
        /\ \A a, b \in LG_IDS :
              (ServedToday(a) > 0 /\ ServedToday(b) < DueAtServe(b) /\ a # b)
                 => /\ trips = 0
                    /\ ServedBefore(a, b)
                    /\ UnmetAtServe(a) >= UnmetAtServe(b)
                    /\ ServedToday(b) > 0 => ServedToday(a) = DueAtServe(a)

\* the budget ran out on the point with the larger unmet need, which is not
\* the first in index order, and the other point got nothing
C21_Witness ==
    /\ ServeStepDone /\ trips = 0
    /\ ServedToday(2) > 0
    /\ ServedToday(1) = 0 /\ DueAtServe(1) > 0
    /\ UnmetAtServe(2) > UnmetAtServe(1)

----------------------------------------------------------------------------
(* Termination *)

\* the run has returned or raised
Terminated == mode \in {"done", "error"}

\* a variant of the whole run, compared lexicographically: the phase, the
\* offsets still to try, the loop head still to pass, the days still to run,
\* the step of the day, the points or needs still to visit, the position
\* inside the serve loop, the trips and the candidates left
Variant ==
    <<CASE mode = "search" -> 3 [] mode = "cg" -> 2 [] mode = "lg" -> 1
        [] OTHER -> 0,
      IF mode = "search" THEN CG_MAX_PRE_DAYS + 1 - x ELSE 0,
      IF pc \in {"for_x", "prod_init", "lg_init"} THEN 1 ELSE 0,
      IF pc \in {"for_x", "prod_init", "lg_init"} THEN 0 ELSE 0 - day,
      CASE pc = "day_start" -> 5
        [] pc \in {"serve", "serve_loop"} -> 4
        [] pc \in {"prestock_init", "lg_day"} -> 3
        [] pc \in {"prestock", "assign"} -> 2
        [] pc = "consume" -> 1
        [] OTHER -> 0,
      IF mode = "lg" THEN Len(needs) ELSE Len(order),
      IF pc = "serve" THEN 1 ELSE 0,
      trips,
      Len(cand)>>

RECURSIVE LexLess(_, _)
\* a < b in lexicographic order, for tuples of integers of the same length
LexLess(a, b) ==
    /\ a # <<>>
    /\ \/ Head(a) < Head(b)
       \/ Head(a) = Head(b) /\ LexLess(Tail(a), Tail(b))

\* an iteration of a pre-position loop (dry run or production run)
PrestockStep == mode \in {"search", "cg"} /\ pc = "prestock" /\ pc' = "prestock"

\* the run stands where one of its steps applies: at a loop head, inside a
\* loop body, or in the dry run's serve loop with a point still to visit
AtSomeStep ==
    \/ mode = "search" /\ pc = "for_x"
    \/ mode = "cg" /\ pc = "prod_init"
    \/ mode \in {"search", "cg"}
          /\ pc \in {"day_start", "prestock_init", "prestock", "consume"}
    \/ mode = "search" /\ pc = "serve" /\ order # <<>>
    \/ mode = "cg" /\ pc = "serve"
    \/ mode = "cg" /\ pc = "serve_loop" /\ order # <<>>
    \/ mode = "lg" /\ pc \in {"lg_init", "lg_day", "assign"}

\* C22: every iteration of a pre-position loop issues a load and spends a
\* trip or removes the visited candidate, so trips + candidates bounds the
\* iterations left; every step of the run lowers the variant, and the run
\* stops only when it has returned or raised: it terminates on every input.
C22_EveryLoopTerminates ==
    /\ [](Terminated \/ AtSomeStep)
    /\ [][/\ LexLess(Variant', Variant)
          /\ PrestockStep =>
                /\ trips' = trips - 1 \/ Len(cand') = Len(cand) - 1
                /\ trips' + Len(cand') < trips + Len(cand)
                /\ trips' >= 0]_vars

\* a pre-position loop of the dry run is past an iteration that issued a
\* load and removed the candidate, with trips and candidates left
C22_Witness ==
    /\ mode = "search" /\ pc = "prestock"
    /\ issued >= 1 /\ trips >= 1 /\ cand # <<>>
    /\ \E lg \in LG_IDS : lg \notin Range(cand) /\ stock[lg] > 0 /\ future[lg] = 0

----------------------------------------------------------------------------
(* Feasibility against the offset *)

\* can_meet_all(x0) has been evaluated and returned True
Succeeded(x0) == x0 < x /\ ~\E f \in failed : f.x = x0

\* can_meet_all(x0) has returned False
Failed(x0) == \E f \in failed : f.x = x0

\* C23: feasibility is monotone in the offset: when the dry run succeeds for
\* an offset it succeeds for every larger offset up to CG_MAX_PRE_DAYS.
C23_FeasibilityMonotone ==
    \A x0, x1 \in 0..CG_MAX_PRE_DAYS :
        (x0 < x1 /\ Succeeded(x0)) => ~Failed(x1)

\* offset 0 failed, and two larger offsets were evaluated and both succeeded
C23_Witness ==
    /\ mode = "search" /\ pc = "for_x"
    /\ Failed(0)
    /\ \E x0, x1 \in 1..CG_MAX_PRE_DAYS :
          x0 < x1 /\ Succeeded(x0) /\ Succeeded(x1)

----------------------------------------------------------------------------
(* The vehicle of an outlet-tier transfer *)

\* the regional points vehicle row i may serve: the numeric tokens of its
\* route cell, or every regional point when the registry has no route column
ResolvedRoute(i) ==
    IF vehicles.has_routes
    THEN {t.int : t \in {u \in Range(vehicles.rows[i].Mapped_LG_IDs) : u.isdigit}}
    ELSE LG_IDS

\* the transfer record appended by this step
NewTransfer == lgp_records'[Len(lgp_records')]

\* C24: the vehicle of every outlet-tier transfer has the transfer's regional
\* point in its resolved route and had made fewer trips than the per-day
\* maximum when it was chosen; a vehicle whose resolved route is empty is in
\* no outlet-tier transfer record, and the assignment of a need does not
\* raise when such a vehicle is in the registry.
C24_TransferVehicleEligible ==
    /\ [][lgp_records' # lgp_records =>
             \E i \in VEH_ROWS :
                /\ vehicles.rows[i].Vehicle_ID = NewTransfer.Vehicle_ID
                /\ NewTransfer.LG_ID \in ResolvedRoute(i)
                /\ Trips_Used[i] < trips_per]_vars
    /\ [](\A k \in DOMAIN lgp_records : \A i \in VEH_ROWS :
             ResolvedRoute(i) = {}
                => lgp_records[k].Vehicle_ID # vehicles.rows[i].Vehicle_ID)
    /\ [][(Assigning /\ \E i \in VEH_ROWS : ResolvedRoute(i) = {})
             => mode' = "lg" /\ err' = err]_vars

\* the run has ended with a transfer on record, by a vehicle that had used
\* its trips on one day, while a vehicle with an empty resolved route is in
\* the registry
C24_Witness ==
    /\ mode = "done"
    /\ \E i \in VEH_ROWS : ResolvedRoute(i) = {}
    /\ \E k \in DOMAIN lgp_records :
          TripsOn(lgp_records, lgp_records[k].Day, lgp_records[k].Vehicle_ID)
             = trips_per

----------------------------------------------------------------------------
(* Shared and dedicated vehicles *)

\* vehicle row i may serve regional point lg and has a trip left
Eligible(i, lg) == lg \in ResolvedRoute(i) /\ Trips_Used[i] < trips_per

\* a route of exactly one regional point, of more than one
DedicatedVehicle(i) == Cardinality(ResolvedRoute(i)) = 1
SharedVehicle(i) == Cardinality(ResolvedRoute(i)) > 1

\* the rows among which the vehicle of a need at lg is taken: the eligible
\* shared vehicles if there is one, else the eligible vehicles
PreferredGroup(lg) ==
    IF \E j \in VEH_ROWS : SharedVehicle(j) /\ Eligible(j, lg)
    THEN {j \in VEH_ROWS : SharedVehicle(j) /\ Eligible(j, lg)}
    ELSE {j \in VEH_ROWS : Eligible(j, lg)}

\* C25: the vehicle of a transfer is the first row, in registry order, of
\* the preferred group of the transfer's regional point: a dedicated vehicle
\* carries it only if no shared vehicle is eligible with a trip left, and
\* the trips already made today do not rank the vehicles.
C25_SharedVehiclePreferred ==
    [][lgp_records' # lgp_records =>
          \E i \in PreferredGroup(NewTransfer.LG_ID) :
             /\ vehicles.rows[i].Vehicle_ID = NewTransfer.Vehicle_ID
             /\ \A j \in PreferredGroup(NewTransfer.LG_ID) : i <= j
             /\ DedicatedVehicle(i) =>
                   ~\E j \in VEH_ROWS :
                       SharedVehicle(j) /\ Eligible(j, NewTransfer.LG_ID)]_vars

----------------------------------------------------------------------------
(* An outlet in need that got no transfer *)

\* the head of the day loop, on a day after the first
NextDayStarts == mode = "lg" /\ pc = "lg_day" /\ day >= 2 /\ day <= Horizon

\* outlet f was at or below its threshold after yesterday's consumption and
\* has no transfer record of yesterday (its stock is unchanged since)
UnservedYesterday(f) ==
    /\ fps_stock2[f] <= Reorder_Threshold_tons(fps[f])
    /\ \A k \in DOMAIN lgp_records :
          ~(lgp_records[k].Day = day - 1 /\ lgp_records[k].FPS_ID = f)

\* the stock of the regional points when yesterday's needs were computed
LgStockYesterday ==
    [lg \in LG_IDS |->
        lg_stock2[lg]
        + QtySum(SelectSeq(lgp_records,
                           LAMBDA r : r.LG_ID = lg /\ r.Day = day - 1))]

\* the urgency value (thr - cur) / daily demand of outlet f at outlet stocks
\* fst, as a fraction
UrgencyAt(f, fst) ==
    [n |-> Reorder_Threshold_tons(fps[f]) - fst[f], d |-> Daily_Demand_tons(fps[f])]

\* u >= v for two urgency values; false when either is nan
UrgGE(u, v) == u.d > 0 /\ v.d > 0 /\ u.n * v.d >= v.n * u.d

\* C26: an outlet at or below its threshold on day d < horizon that got no
\* transfer on day d is not tried again on day d; on day d+1 it is still at
\* or below its threshold after the consumption, it is in the need list
\* whenever its regional point has stock and it has free capacity, and its
\* urgency value is >= the one it had on day d.
C26_UnservedOutletReevaluated ==
    /\ [][Assigning =>
             \A k \in DOMAIN needs' : needs'[k].fid # Head(needs).fid]_vars
    /\ [][NextDayStarts =>
             \A f \in FPS_IDS : UnservedYesterday(f) =>
                LET cur == ConsumeFps(fps_stock2)
                    r == fps[f]
                IN /\ pc' = "assign"
                   /\ cur[f] <= Reorder_Threshold_tons(r)
                   /\ (Avail(lg_stock2, r.LG_ID) > 0
                         /\ r.Max_Capacity_tons - cur[f] > 0)
                         => \E k \in DOMAIN needs' : needs'[k].fid = f
                   /\ (HasNeed(r, fps_stock2, LgStockYesterday)
                         /\ HasNeed(r, cur, lg_stock2))
                         => UrgGE(UrgencyAt(f, cur), UrgencyAt(f, fps_stock2))]_vars

----------------------------------------------------------------------------
(* One transfer per outlet and day *)

\* the transfer records of outlet f on day d
TransfersTo(f, d) ==
    {k \in DOMAIN lgp_records :
        lgp_records[k].FPS_ID = f /\ lgp_records[k].Day = d}

\* the largest capacity in the vehicle registry
LargestCapacity ==
    CHOOSE c \in {Capacity(vehicles.rows[i]) : i \in VEH_ROWS} :
        \A i \in VEH_ROWS : Capacity(vehicles.rows[i]) <= c

\* C27: an outlet has at most one outlet-tier transfer record per day and at
\* most one entry in the day's need list, none once it has been processed
\* today, so that the tonnage it receives in one day is at most the largest
\* vehicle capacity, whatever trips and regional stock are left.
C27_OneTransferPerOutletPerDay ==
    /\ \A f \in FPS_IDS : \A d \in 1..Horizon :
          /\ Cardinality(TransfersTo(f, d)) <= 1
          /\ FpsIn(f, d) <= LargestCapacity
    /\ (mode = "lg" /\ pc = "assign") =>
          /\ \A i, j \in DOMAIN needs : needs[i].fid = needs[j].fid => i = j
          /\ \A i \in DOMAIN needs : TransfersTo(needs[i].fid, day) = {}

\* the needs of the day are all processed; an outlet that got its transfer
\* still has free capacity, its regional point still has stock, and a
\* vehicle routed to that point still has a trip to make
C27_Witness ==
    /\ mode = "lg" /\ pc = "assign" /\ needs = <<>>
    /\ \E f \in FPS_IDS :
          /\ TransfersTo(f, day) # {}
          /\ fps_stock2[f] < fps[f].Max_Capacity_tons
          /\ lg_stock2[fps[f].LG_ID] > 0
          /\ \E i \in VEH_ROWS : Eligible(i, fps[f].LG_ID)

----------------------------------------------------------------------------
(* Regional stock in the dispatcher *)

\* total tonnage of the transfers recorded so far from regional point lg
Dispatched(lg) == QtySum(SelectSeq(lgp_records, LAMBDA r : r.LG_ID = lg))

\* the snapshot rows of regional point lg
LgRows(lg) ==
    {i \in DOMAIN stock_records :
        stock_records[i].Entity_Type = "LG" /\ stock_records[i].Entity_ID = lg}

\* C28: in the dispatcher the stock of a regional point is its initial
\* allocation minus the transfers that left it, nothing is ever added, and
\* it is never negative; the snapshot of day d shows the allocation minus
\* the transfers of days 1..d, and a later snapshot never shows more than an
\* earlier one.
C28_RegionalStockConserved ==
    /\ []((Dispatching \/ mode = "done") =>
             \A lg \in LG_IDS :
                /\ lg_stock2[lg] = lgs[lg] - Dispatched(lg)
                /\ lg_stock2[lg] >= 0)
    /\ [](\A lg \in LG_IDS : \A i \in LgRows(lg) :
             /\ stock_records[i].Stock_Level_tons
                   = lgs[lg] - LgOut(lg, stock_records[i].Day)
             /\ stock_records[i].Stock_Level_tons >= 0
             /\ \A j \in LgRows(lg) :
                   stock_records[i].Day < stock_records[j].Day
                      => stock_records[j].Stock_Level_tons
                            <= stock_records[i].Stock_Level_tons)
    /\ [][\A lg \in LG_IDS : Dispatching /\ Dispatching' =>
             lg_stock2'[lg] <= lg_stock2[lg]]_vars

\* the run has ended; two outlets of one regional point were served on the
\* same day, their need quantities added up to more than the point held,
\* and the snapshot of that day shows the point empty
C28_Witness ==
    /\ mode = "done"
    /\ \E i, j \in DOMAIN lgp_records :
          /\ i < j
          /\ lgp_records[i].Day = lgp_records[j].Day
          /\ lgp_records[i].LG_ID = lgp_records[j].LG_ID
          /\ lgp_records[j].Quantity_tons
                < Min(Capacity(vehicles.rows[lgp_records[j].Vehicle_ID]),
                      fps[lgp_records[j].FPS_ID].Max_Capacity_tons
                         - PostConsumption(lgp_records[j].FPS_ID, lgp_records[j].Day))
          /\ \E k \in LgRows(lgp_records[i].LG_ID) :
                /\ stock_records[k].Day = lgp_records[i].Day
                /\ stock_records[k].Stock_Level_tons = 0

====
